---- MODULE Spec2Model ----
(***************************************************************************)
(* Model of research_fields_extractor.py (class ResearchFieldExtractor):   *)
(* the label normaliser clean_interest, the two-pass aggregation           *)
(* (extract_unique_interests, calculate_field_statistics) and the          *)
(* end-to-end pass process_authors_file with print_summary.                *)
(*                                                                         *)
(* A Python str is a sequence of one-character strings.  Averages, which   *)
(* the code rounds to two decimals, are held as integer hundredths.        *)
(***************************************************************************)
EXTENDS Integers, Sequences, FiniteSets, TLC

\* ---------------------------------------------------------------- bounds
\* longest raw interest string the normaliser is run on
MaxLen == 3
\* most author records in the input array
MaxAuthors == 2
\* most authors of the field taken alone, and their largest hindex
MaxFieldSize == 101
MaxHIndex == 1

\* ---------------------------------------------------------------- characters
Lower == {"a", "b"}
Upper == {"A", "B"}
\* characters matched by \s (and removed by str.strip())
Whitespace == {" ", "\t"}
\* the character class [.,;!?] of the second re.sub
Terminators == {".", ",", ";", "!", "?"}
\* characters the bounded raw strings are built from
Alphabet == {"a", "A", "b", " ", "\t", ".", "!"}

upper(c) == CASE c = "a" -> "A" [] c = "b" -> "B" [] OTHER -> c
lower(c) == CASE c = "A" -> "a" [] c = "B" -> "b" [] OTHER -> c
IsCased(c) == c \in Lower \cup Upper

\* str.strip(): drop leading and trailing whitespace
RECURSIVE lstrip(_)
lstrip(s) == IF s # <<>> /\ Head(s) \in Whitespace THEN lstrip(Tail(s)) ELSE s

RECURSIVE rstrip(_)
rstrip(s) ==
    IF s # <<>> /\ s[Len(s)] \in Whitespace
    THEN rstrip(SubSeq(s, 1, Len(s) - 1)) ELSE s

strip(s) == rstrip(lstrip(s))

\* re.sub(r'\s+', ' ', s): every maximal run of whitespace becomes one space
RECURSIVE collapse_whitespace(_)
collapse_whitespace(s) ==
    IF s = <<>> THEN <<>>
    ELSE IF Head(s) \in Whitespace
         THEN <<" ">> \o collapse_whitespace(lstrip(s))
         ELSE <<Head(s)>> \o collapse_whitespace(Tail(s))

\* re.sub(r'[.,;!?]+$', '', s): drop the run of terminators that ends s
RECURSIVE strip_terminators(_)
strip_terminators(s) ==
    IF s # <<>> /\ s[Len(s)] \in Terminators
    THEN strip_terminators(SubSeq(s, 1, Len(s) - 1)) ELSE s

\* str.title(): a cased character is upper-cased when the character before
\* it is not cased, lower-cased otherwise
RECURSIVE title_from(_, _)
title_from(s, prev_cased) ==
    IF s = <<>> THEN <<>>
    ELSE <<IF prev_cased THEN lower(Head(s)) ELSE upper(Head(s))>>
         \o title_from(Tail(s), IsCased(Head(s)))

title(s) == title_from(s, FALSE)

clean_interest(interest) ==
    IF interest = <<>> THEN <<>>
    ELSE title(strip_terminators(collapse_whitespace(strip(interest))))

\* ---------------------------------------------------------------- state
VARIABLES
    \* normaliser run: a raw interest, a second raw string that differs from
    \* it only in whitespace runs, surrounding terminators and letter case,
    \* and the labels clean_interest returns for them
    interest, variant, cleaned, cleaned_variant, recleaned, npc,
    \* process_authors_file: its arguments, locals and outcome
    input_file, output_file, authors_data, unique_interests, pending,
    field_stats, results, written, printed, exc, retval, pc,
    \* display_research_fields_analysis of the dashboard: the value
    \* load_research_fields_data returned, how far the view got, what it raised
    fields_data, view, view_exc,
    \* one field of calculate_field_statistics taken alone: its h_indices
    \* list (held as length and sum), the statistics computed, the position
    h_indices, field, fpc

nvars == <<interest, variant, cleaned, cleaned_variant, recleaned, npc>>
pvars == <<input_file, output_file, authors_data, unique_interests, pending,
           field_stats, results, written, printed, exc, retval, pc>>
svars == <<fields_data, view, view_exc>>
fvars == <<h_indices, field, fpc>>
vars == <<nvars, pvars, svars, fvars>>

\* Python's None, and the value of a local that is not bound yet
None == [kind |-> "None"]

\* ---------------------------------------------------------------- normaliser runs
RECURSIVE StringsUpTo(_)
StringsUpTo(n) ==
    IF n = 0 THEN {<<>>}
    ELSE LET shorter == StringsUpTo(n - 1)
         IN shorter \cup {Append(s, c) : s \in {t \in shorter : Len(t) = n - 1}, c \in Alphabet}

RawStrings == StringsUpTo(MaxLen)

Insert(s, i, c) == SubSeq(s, 1, i) \o <<c>> \o SubSeq(s, i + 1, Len(s))
Remove(s, i) == SubSeq(s, 1, i - 1) \o SubSeq(s, i + 1, Len(s))

NIdle == /\ interest = <<>> /\ variant = <<>> /\ cleaned = <<>>
         /\ cleaned_variant = <<>> /\ recleaned = <<>> /\ npc = "idle"
PIdle == /\ input_file = None /\ output_file = None /\ authors_data = None
         /\ unique_interests = {} /\ pending = {} /\ field_stats = <<>>
         /\ results = None /\ written = None /\ printed = FALSE
         /\ exc = "None" /\ retval = None /\ pc = "idle"

SIdle == fields_data = None /\ view = "idle" /\ view_exc = "None"
FIdle == h_indices = [len |-> 0, sum |-> 0] /\ field = None /\ fpc = "idle"

NInit ==
    /\ interest \in RawStrings
    /\ variant = interest
    /\ cleaned = <<>> /\ cleaned_variant = <<>> /\ recleaned = <<>>
    /\ npc = "raw"
    /\ PIdle /\ SIdle /\ FIdle

\* lengthen a whitespace run of the variant by one character
LengthenRun ==
    /\ npc = "raw" /\ Len(variant) < MaxLen
    /\ \E i \in 1..Len(variant), c \in Whitespace :
          /\ variant[i] \in Whitespace
          /\ variant' = Insert(variant, i, c)
    /\ UNCHANGED <<interest, cleaned, cleaned_variant, recleaned, npc, pvars, svars, fvars>>

\* shorten a whitespace run of the variant that has two characters or more
ShortenRun ==
    /\ npc = "raw"
    /\ \E i \in 1..(Len(variant) - 1) :
          /\ variant[i] \in Whitespace /\ variant[i + 1] \in Whitespace
          /\ variant' = Remove(variant, i)
    /\ UNCHANGED <<interest, cleaned, cleaned_variant, recleaned, npc, pvars, svars, fvars>>

\* put a terminator after the variant, or take its last one away
TrailingPunctuation ==
    /\ npc = "raw"
    /\ \/ /\ Len(variant) < MaxLen
          /\ \E c \in Terminators \cap Alphabet : variant' = Append(variant, c)
       \/ /\ variant # <<>> /\ variant[Len(variant)] \in Terminators
          /\ variant' = SubSeq(variant, 1, Len(variant) - 1)
    /\ UNCHANGED <<interest, cleaned, cleaned_variant, recleaned, npc, pvars, svars, fvars>>

\* put a terminator before the variant, or take its first one away
LeadingPunctuation ==
    /\ npc = "raw"
    /\ \/ /\ Len(variant) < MaxLen
          /\ \E c \in Terminators \cap Alphabet : variant' = <<c>> \o variant
       \/ /\ variant # <<>> /\ Head(variant) \in Terminators
          /\ variant' = Tail(variant)
    /\ UNCHANGED <<interest, cleaned, cleaned_variant, recleaned, npc, pvars, svars, fvars>>

\* change the case of one letter of the variant
ChangeCase ==
    /\ npc = "raw"
    /\ \E i \in 1..Len(variant) :
          /\ IsCased(variant[i])
          /\ variant' = [variant EXCEPT ![i] =
                            IF @ \in Lower THEN upper(@) ELSE lower(@)]
    /\ UNCHANGED <<interest, cleaned, cleaned_variant, recleaned, npc, pvars, svars, fvars>>

\* clean_interest is called on both raw strings
Normalize ==
    /\ npc = "raw"
    /\ cleaned' = clean_interest(interest)
    /\ cleaned_variant' = clean_interest(variant)
    /\ npc' = "cleaned"
    /\ UNCHANGED <<interest, variant, recleaned, pvars, svars, fvars>>

\* clean_interest is called on the label it returned
Renormalize ==
    /\ npc = "cleaned"
    /\ recleaned' = clean_interest(cleaned)
    /\ npc' = "recleaned"
    /\ UNCHANGED <<interest, variant, cleaned, cleaned_variant, pvars, svars, fvars>>

NNext ==
    \/ LengthenRun \/ ShortenRun \/ TrailingPunctuation \/ LeadingPunctuation
    \/ ChangeCase \/ Normalize \/ Renormalize

SpecNormalizer == NInit /\ [][NNext]_vars

\* C1: normalising a label that clean_interest returned yields the same
\* label, for every raw string.
C1_Idempotent == npc = "recleaned" => recleaned = cleaned

\* C2: two raw strings that differ only in the length of whitespace runs,
\* in leading or trailing terminators, or in letter case get the same label.
C2_SameLabel == npc # "raw" => cleaned_variant = cleaned

\* ---------------------------------------------------------------- input documents
\* a JSON value of an author's profile_interests key: absent, an array of
\* strings (l) or a plain string (s)
Absent == [t |-> "absent", l |-> <<>>, s |-> <<>>]
ListOf(l) == [t |-> "list", l |-> l, s |-> <<>>]
StrOf(s) == [t |-> "str", l |-> <<>>, s |-> s]

InterestChoices ==
    { Absent,
      ListOf(<< <<" ">> >>),
      ListOf(<< <<"a", "b">> >>),
      ListOf(<< <<"A", "B", ".">>, <<"a", "b">> >>),
      ListOf(<< <<"b">>, <<"a", "b">> >>),
      StrOf(<<"b">>) }

\* a JSON value of an author's hindex or i10index key: absent, an integer
\* (n) or a string (s)
NoMetric == [t |-> "absent", n |-> 0, s |-> <<>>]
IntMetric(n) == [t |-> "int", n |-> n, s |-> <<>>]
StrMetric(s) == [t |-> "str", n |-> 0, s |-> s]

HIndexChoices == {NoMetric, IntMetric(1), StrMetric(<<"2">>), StrMetric(<<"x">>)}
I10IndexChoices == {NoMetric, StrMetric(<<"x">>)}

\* the author objects; profile_name is the record's position in the array
AuthorsAt(i) ==
    [isobj : {TRUE}, profile_name : {i}, profile_interests : InterestChoices,
     hindex : HIndexChoices, i10index : I10IndexChoices]

RECURSIVE AuthorLists(_)
AuthorLists(n) ==
    IF n = 0 THEN {<<>>}
    ELSE LET shorter == AuthorLists(n - 1)
         IN shorter \cup {Append(as, a) : as \in {x \in shorter : Len(x) = n - 1},
                                          a \in AuthorsAt(n)}

\* what iterating a JSON object or a JSON string yields: str values
NotAnObject == [isobj |-> FALSE]

\* the input file: missing, not JSON, or a JSON document
Documents ==
    {[kind |-> "missing", items |-> <<>>], [kind |-> "invalid", items |-> <<>>],
     [kind |-> "number", items |-> <<>>],
     [kind |-> "object", items |-> <<>>], [kind |-> "object", items |-> <<NotAnObject>>],
     [kind |-> "string", items |-> <<>>], [kind |-> "string", items |-> <<NotAnObject>>]}
    \cup {[kind |-> "array", items |-> as] : as \in AuthorLists(MaxAuthors)}

\* ---------------------------------------------------------------- aggregation
\* the values the loops of lines 31 and 50 iterate over: the elements of a
\* list, the characters of a str; `if interests:` skips the empty ones
InterestsOf(author) ==
    LET pi == author.profile_interests
    IN IF pi.t = "list" THEN pi.l
       ELSE IF pi.t = "str" THEN [i \in 1..Len(pi.s) |-> <<pi.s[i]>>]
       ELSE <<>>

extract_unique_interests(authors) ==
    UNION {{clean_interest(InterestsOf(authors[i])[j]) :
               j \in 1..Len(InterestsOf(authors[i]))} : i \in 1..Len(authors)}
    \ {<<>>}

\* int(): the value, or ValueError (ok = FALSE) for a str that is not a
\* decimal numeral
Digits == <<"0", "1", "2", "3", "4", "5", "6", "7", "8", "9">>
DigitValue(c) == (CHOOSE d \in 1..10 : Digits[d] = c) - 1
IsDigit(c) == \E d \in 1..10 : Digits[d] = c

RECURSIVE numeral(_)
numeral(s) ==
    IF s = <<>> THEN 0
    ELSE 10 * numeral(SubSeq(s, 1, Len(s) - 1)) + DigitValue(s[Len(s)])

int(m) ==
    IF m.t = "str"
    THEN LET digits == strip(m.s)
         IN IF digits # <<>> /\ \A i \in 1..Len(digits) : IsDigit(digits[i])
            THEN [ok |-> TRUE, v |-> numeral(digits)]
            ELSE [ok |-> FALSE, v |-> 0]
    ELSE [ok |-> TRUE, v |-> m.n]

\* appended without the break of line 63: once per matching raw interest
appended_without_break(author, label) ==
    Cardinality({j \in 1..Len(InterestsOf(author)) :
                    clean_interest(InterestsOf(author)[j]) = label})

\* how many times the scan of lines 50-63 appends the author to the field:
\* once, at the first raw interest that normalises to the label (break)
appended(author, label) ==
    IF \E j \in 1..Len(InterestsOf(author)) :
          clean_interest(InterestsOf(author)[j]) = label
    THEN 1 ELSE 0

\* the entry of lines 57-62
Entry(author) ==
    [name |-> author.profile_name,
     hindex |-> int(author.hindex).v, i10index |-> int(author.i10index).v]

\* authors_in_field after the scan of lines 47-63, in input order
RECURSIVE authors_in_field(_, _)
authors_in_field(authors, label) ==
    IF authors = <<>> THEN <<>>
    ELSE LET n == Len(authors)
             a == authors[n]
         IN authors_in_field(SubSeq(authors, 1, n - 1), label)
            \o [k \in 1..appended(a, label) |-> Entry(a)]

\* the scan raises ValueError at the first matching author whose hindex or
\* i10index int() rejects
ScanRaises(authors, label) ==
    \E i \in 1..Len(authors) :
        /\ appended(authors[i], label) > 0
        /\ ~int(authors[i].hindex).ok \/ ~int(authors[i].i10index).ok

\* insert_desc of a sort that is not stable: equal keys end up reversed
RECURSIVE insert_desc_unstable(_, _, _)
insert_desc_unstable(xs, x, key) ==
    IF xs = <<>> THEN <<x>>
    ELSE IF Head(xs)[key] > x[key]
         THEN <<Head(xs)>> \o insert_desc_unstable(Tail(xs), x, key)
         ELSE <<x>> \o xs

\* sorted(xs, key=lambda x: x[key], reverse=True): descending and stable,
\* equal keys keep the order they have in xs
RECURSIVE insert_desc(_, _, _)
insert_desc(xs, x, key) ==
    IF xs = <<>> THEN <<x>>
    ELSE IF Head(xs)[key] >= x[key]
         THEN <<Head(xs)>> \o insert_desc(Tail(xs), x, key)
         ELSE <<x>> \o xs

RECURSIVE sorted_reverse(_, _)
sorted_reverse(xs, key) ==
    IF xs = <<>> THEN <<>>
    ELSE insert_desc(sorted_reverse(SubSeq(xs, 1, Len(xs) - 1), key),
                     xs[Len(xs)], key)

RECURSIVE sum(_, _)
sum(xs, key) == IF xs = <<>> THEN 0 ELSE xs[1][key] + sum(Tail(xs), key)

max(xs, key) == CHOOSE v \in {xs[i][key] : i \in 1..Len(xs)} :
                    \A i \in 1..Len(xs) : xs[i][key] <= v
min(xs, key) == CHOOSE v \in {xs[i][key] : i \in 1..Len(xs)} :
                    \A i \in 1..Len(xs) : xs[i][key] >= v

\* round2 cutting the digits after the second decimal off
round2_truncating(total, n) == (100 * total) \div n

\* round(total / n, 2) in hundredths: the nearest hundredth, a tie going to
\* the even one
round2(total, n) ==
    LET q == (100 * total) \div n
        r == (100 * total) % n
    IN IF 2 * r < n THEN q
       ELSE IF 2 * r > n THEN q + 1
       ELSE IF q % 2 = 0 THEN q ELSE q + 1

\* round(num / den): the nearest integer, a tie going to the even one
round_nearest(num, den) ==
    LET q == num \div den
        r == num % den
    IN IF 2 * r < den THEN q
       ELSE IF 2 * r > den THEN q + 1
       ELSE IF q % 2 = 0 THEN q ELSE q + 1

\* the values round(total / n, 2) can take, in hundredths.  total / n is a
\* double: when the quotient lies halfway between two hundredths and is no
\* multiple of 1/8, the double is not the quotient and lies on either side
\* of it, so the result is either neighbour
round2_outcomes(total, n) ==
    LET q == (100 * total) \div n
        r == (100 * total) % n
    IN IF 2 * r = n /\ (2 * q + 1) % 25 # 0 THEN {q, q + 1}
       ELSE {round2(total, n)}

\* the dict of lines 66-77, with its key
FieldStatistics(label, in_field) ==
    [field |-> label,
     count |-> Len(in_field),
     average_h_index |-> round2(sum(in_field, "hindex"), Len(in_field)),
     average_i10_index |-> round2(sum(in_field, "i10index"), Len(in_field)),
     max_h_index |-> max(in_field, "hindex"),
     min_h_index |-> min(in_field, "hindex"),
     max_i10_index |-> max(in_field, "i10index"),
     min_i10_index |-> min(in_field, "i10index"),
     total_h_index |-> sum(in_field, "hindex"),
     total_i10_index |-> sum(in_field, "i10index"),
     authors |-> sorted_reverse(in_field, "hindex")]

\* max_item returning the last of the items with the largest key
max_item_last(fs, key) ==
    IF fs = <<>> THEN None
    ELSE fs[CHOOSE i \in 1..Len(fs) :
                /\ \A j \in 1..Len(fs) : fs[j][key] <= fs[i][key]
                /\ \A j \in (i + 1)..Len(fs) : fs[j][key] < fs[i][key]]

\* max(field_stats.items(), key=...): the first item, in the dict's order,
\* whose key is the largest; None for an empty dict
max_item(fs, key) ==
    IF fs = <<>> THEN None
    ELSE fs[CHOOSE i \in 1..Len(fs) :
                /\ \A j \in 1..Len(fs) : fs[j][key] <= fs[i][key]
                /\ \A j \in 1..(i - 1) : fs[j][key] < fs[i][key]]

\* Results exporting field_stats where sorted_field_stats is meant
ResultsUnsorted(authors, fs) ==
    [kind |-> "results",
     research_fields_statistics |-> fs,
     total_authors |-> Len(authors),
     total_unique_fields |-> Len(fs),
     top_field_by_avg_h_index |-> max_item(fs, "average_h_index"),
     most_popular_field |-> max_item(fs, "count"),
     field_with_highest_max_h_index |-> max_item(fs, "max_h_index")]

\* the dict of lines 102-116
Results(authors, fs) ==
    [kind |-> "results",
     research_fields_statistics |-> sorted_reverse(fs, "average_h_index"),
     total_authors |-> Len(authors),
     total_unique_fields |-> Len(fs),
     top_field_by_avg_h_index |-> max_item(fs, "average_h_index"),
     most_popular_field |-> max_item(fs, "count"),
     field_with_highest_max_h_index |-> max_item(fs, "max_h_index")]

\* the {} of lines 88 and 91
EmptyDict == [kind |-> "{}"]

\* ---------------------------------------------------------------- process_authors_file
\* the call process_authors_file(input_file, output_file): output_file is the
\* default None or a path ("given")
Init ==
    /\ NIdle /\ SIdle /\ FIdle
    /\ input_file \in Documents
    /\ output_file \in {None, [kind |-> "given"]}
    /\ authors_data = None
    /\ unique_interests = {} /\ pending = {} /\ field_stats = <<>>
    /\ results = None /\ written = None /\ printed = FALSE
    /\ exc = "None" /\ retval = None
    /\ pc = "start"

\* Load going on with an empty author list after a failed load, where the
\* code returns
LoadFallsThrough ==
    /\ pc = "start"
    /\ authors_data' = IF input_file.kind \in {"missing", "invalid"}
                       THEN [kind |-> "array", items |-> <<>>]
                       ELSE input_file
    /\ pc' = "loaded"
    /\ UNCHANGED <<nvars, svars, fvars, input_file, output_file, unique_interests, pending,
                   field_stats, results, written, printed, exc, retval>>

\* lines 83-91: open and json.load; FileNotFoundError and JSONDecodeError
\* are caught, reported, and {} is returned
Load ==
    /\ pc = "start"
    /\ IF input_file.kind \in {"missing", "invalid"}
       THEN /\ retval' = EmptyDict
            /\ pc' = "done"
            /\ UNCHANGED authors_data
       ELSE /\ authors_data' = input_file
            /\ pc' = "loaded"
            /\ UNCHANGED retval
    /\ UNCHANGED <<nvars, svars, fvars, input_file, output_file, unique_interests, pending,
                   field_stats, results, written, printed, exc>>

\* lines 93-97: len(authors_data), then extract_unique_interests; a number
\* has no len(), and the elements a JSON object or string yields have no .get
Extract ==
    /\ pc = "loaded"
    /\ IF authors_data.kind = "number"
       THEN /\ exc' = "TypeError" /\ pc' = "raised"
            /\ UNCHANGED <<unique_interests, pending>>
       ELSE IF \E i \in 1..Len(authors_data.items) : ~authors_data.items[i].isobj
       THEN /\ exc' = "AttributeError" /\ pc' = "raised"
            /\ UNCHANGED <<unique_interests, pending>>
       ELSE /\ unique_interests' = extract_unique_interests(authors_data.items)
            /\ pending' = unique_interests'
            /\ pc' = "extracted"
            /\ UNCHANGED exc
    /\ UNCHANGED <<nvars, svars, fvars, input_file, output_file, authors_data, field_stats,
                   results, written, printed, retval>>

\* lines 41-77, one iteration of `for interest in unique_interests`: a set
\* is iterated in no particular order
CalcField ==
    /\ pc = "extracted"
    /\ \E label \in pending :
          IF ScanRaises(authors_data.items, label)
          THEN /\ exc' = "ValueError" /\ pc' = "raised"
               /\ UNCHANGED <<pending, field_stats>>
          ELSE LET in_field == authors_in_field(authors_data.items, label)
               IN /\ field_stats' =
                        IF in_field # <<>>
                        THEN Append(field_stats, FieldStatistics(label, in_field))
                        ELSE field_stats
                  /\ pending' = pending \ {label}
                  /\ UNCHANGED <<exc, pc>>
    /\ UNCHANGED <<nvars, svars, fvars, input_file, output_file, authors_data,
                   unique_interests, results, written, printed, retval>>

\* lines 100-116: the loop is over; sort the fields and build results
Rank ==
    /\ pc = "extracted" /\ pending = {}
    /\ results' = Results(authors_data.items, field_stats)
    /\ pc' = "ranked"
    /\ UNCHANGED <<nvars, svars, fvars, input_file, output_file, authors_data,
                   unique_interests, pending, field_stats, written, printed,
                   exc, retval>>

\* lines 119-122: json.dump(results) into output_file when one is given
Save ==
    /\ pc = "ranked"
    /\ written' = IF output_file # None THEN results ELSE written
    /\ pc' = "saved"
    /\ UNCHANGED <<nvars, svars, fvars, input_file, output_file, authors_data,
                   unique_interests, pending, field_stats, results, printed,
                   exc, retval>>

\* PrintSummary unpacking the summary facts without the tests of lines 139
\* and 143: unpacking None raises TypeError
PrintSummaryUnguarded ==
    /\ pc = "saved"
    /\ IF results.top_field_by_avg_h_index = None
          \/ results.most_popular_field = None
       THEN /\ exc' = "TypeError" /\ pc' = "raised"
            /\ UNCHANGED printed
       ELSE /\ printed' = TRUE /\ pc' = "printed"
            /\ UNCHANGED exc
    /\ UNCHANGED <<nvars, svars, fvars, input_file, output_file, authors_data,
                   unique_interests, pending, field_stats, results, written,
                   retval>>

\* lines 124, 128-163: print_summary; it unpacks a summary fact only when the
\* fact is truthy, and divides by total_authors once per field
PrintSummary ==
    /\ pc = "saved"
    /\ IF results.research_fields_statistics # <<>> /\ results.total_authors = 0
       THEN /\ exc' = "ZeroDivisionError" /\ pc' = "raised"
            /\ UNCHANGED printed
       ELSE /\ printed' = TRUE /\ pc' = "printed"
            /\ UNCHANGED exc
    /\ UNCHANGED <<nvars, svars, fvars, input_file, output_file, authors_data,
                   unique_interests, pending, field_stats, results, written,
                   retval>>

\* line 126
Return ==
    /\ pc = "printed"
    /\ retval' = results
    /\ pc' = "done"
    /\ UNCHANGED <<nvars, svars, fvars, input_file, output_file, authors_data,
                   unique_interests, pending, field_stats, results, written,
                   printed, exc>>

\* ---------------------------------------------------------------- dashboard
\* streamlit_app.py, load_research_fields_data, called at line 177 once the
\* extractor has ended: the parsed output file, or a warning and None when
\* no file was written
LoadResearchFieldsData ==
    /\ pc \in {"done", "raised"} /\ view = "idle"
    /\ fields_data' = written
    /\ view' = IF written = None THEN "warned" ELSE "loaded"
    /\ UNCHANGED <<nvars, pvars, fvars, view_exc>>

\* streamlit_app.py lines 178-182 and on: fields_data.get(...) raises
\* AttributeError on None; empty statistics give the warning and the return
\* of lines 180-182; otherwise the view is rendered
DisplayResearchFieldsAnalysis ==
    /\ view \in {"warned", "loaded"}
    /\ IF fields_data = None
       THEN /\ view_exc' = "AttributeError" /\ view' = "raised"
       ELSE /\ view' = IF fields_data.research_fields_statistics = <<>>
                       THEN "unavailable" ELSE "rendered"
            /\ UNCHANGED view_exc
    /\ UNCHANGED <<nvars, pvars, fvars, fields_data>>

Next ==
    \/ Load \/ Extract \/ CalcField \/ Rank \/ Save \/ PrintSummary \/ Return
    \/ LoadResearchFieldsData \/ DisplayResearchFieldsAnalysis

Spec == Init /\ [][Next]_vars

\* ---------------------------------------------------------------- properties
Authors == authors_data.items

\* the author has a raw interest that normalises to the label
HasLabel(author, label) ==
    \E j \in 1..Len(InterestsOf(author)) :
        clean_interest(InterestsOf(author)[j]) = label

\* the author has two raw interests, at different places, that normalise to
\* the label
HasLabelTwice(author, label) ==
    \E j, k \in 1..Len(InterestsOf(author)) :
        /\ j < k
        /\ clean_interest(InterestsOf(author)[j]) = label
        /\ clean_interest(InterestsOf(author)[k]) = label

\* C3: a field's count is the number of author records with at least one raw
\* interest normalising to its label, and no author record is twice in the
\* field's authors list.
C3_CountDistinctAuthors ==
    \A k \in 1..Len(field_stats) :
        LET f == field_stats[k]
        IN /\ f.count = Cardinality({i \in 1..Len(Authors) :
                                        HasLabel(Authors[i], f.field)})
           /\ \A i, j \in 1..Len(f.authors) :
                 i # j => f.authors[i].name # f.authors[j].name

\* a finished run with a field of two authors, one of whom lists the field
\* under two spellings
C3_Witness ==
    /\ pc = "done" /\ retval = results /\ results # None
    /\ \E k \in 1..Len(field_stats) :
          /\ field_stats[k].count = 2
          /\ \E i \in 1..Len(Authors) :
                HasLabelTwice(Authors[i], field_stats[k].field)

\* C4: the fields of research_fields_statistics, in order, have
\* non-increasing average_h_index.
C4_NonIncreasingAverage ==
    results # None =>
        \A i, j \in 1..Len(results.research_fields_statistics) :
            i < j => results.research_fields_statistics[i].average_h_index
                     >= results.research_fields_statistics[j].average_h_index

\* a finished run in which the field computed first has the lower average,
\* so that the sort had to move it
C4_Witness ==
    /\ pc = "done" /\ results # None
    /\ Len(field_stats) = 2
    /\ field_stats[1].average_h_index < field_stats[2].average_h_index
    /\ results.research_fields_statistics[1].field = field_stats[2].field

\* C5: a field's authors are in non-increasing hindex order, and authors with
\* equal hindex are in the order of their records in the input.
C5_StableDescending ==
    \A k \in 1..Len(field_stats) :
        LET as == field_stats[k].authors
        IN \A i, j \in 1..Len(as) :
              i < j => /\ as[i].hindex >= as[j].hindex
                       /\ as[i].hindex = as[j].hindex => as[i].name < as[j].name

\* a returned field with two authors of equal hindex
C5_Witness ==
    /\ pc = "done" /\ results # None
    /\ \E k \in 1..Len(results.research_fields_statistics) :
          LET as == results.research_fields_statistics[k].authors
          IN /\ Len(as) = 2
             /\ as[1].hindex = as[2].hindex
             /\ as[1].hindex > 0

\* int() rejects the author's hindex or i10index
BadMetric(author) == ~int(author.hindex).ok \/ ~int(author.i10index).ok

\* C6: an author whose hindex or i10index cannot be coerced to an integer
\* gets 0 for that metric, and the run is not aborted: it returns the
\* statistics.
C6_BadMetricCountsAsZero ==
    (input_file.kind = "array"
        /\ \E i \in 1..Len(input_file.items) : BadMetric(input_file.items[i]))
    => /\ exc # "ValueError"
       /\ pc = "done" =>
             /\ retval = results /\ results # None
             /\ \A k \in 1..Len(field_stats) :
                   \A e \in 1..Len(field_stats[k].authors) :
                       LET entry == field_stats[k].authors[e]
                           author == Authors[entry.name]
                       IN /\ ~int(author.hindex).ok => entry.hindex = 0
                          /\ ~int(author.i10index).ok => entry.i10index = 0

\* the author list with every profile_interests that is not a list taken away
WithoutNonLists(authors) ==
    [i \in 1..Len(authors) |->
        IF authors[i].profile_interests.t = "str"
        THEN [authors[i] EXCEPT !.profile_interests = Absent]
        ELSE authors[i]]

\* C7: an author whose profile_interests is present but not a list adds no
\* label to the field universe, is in no field, and causes no error.
C7_NonListIsNoInterests ==
    (input_file.kind = "array"
        /\ pc \in {"extracted", "ranked", "saved", "printed", "done"})
    => /\ unique_interests = extract_unique_interests(WithoutNonLists(Authors))
       /\ \A k \in 1..Len(field_stats) :
             \A e \in 1..Len(field_stats[k].authors) :
                 Authors[field_stats[k].authors[e].name].profile_interests.t # "str"

\* C8: when the input is JSON but not an array of objects, the run aborts:
\* no output file is written and no statistics are returned.
C8_NotAnArrayAborts ==
    input_file.kind \in {"object", "string", "number"}
    => /\ written = None
       /\ pc = "done" => retval = EmptyDict

\* C9: when the input path does not exist, {} is returned, the output file
\* is never written, and no aggregation step runs.
C9_NotFoundReturnsEmpty ==
    input_file.kind = "missing"
    => /\ pc \in {"start", "done"}
       /\ written = None
       /\ authors_data = None /\ unique_interests = {} /\ field_stats = <<>>
       /\ results = None /\ exc = "None"
       /\ pc = "done" => retval = EmptyDict

\* the call with a missing input and an output path has returned
C9_Witness ==
    /\ input_file.kind = "missing" /\ output_file # None
    /\ pc = "done" /\ retval = EmptyDict

\* no raw interest of the input normalises to a usable (non-empty) label
NoUsableLabel ==
    \A i \in 1..Len(input_file.items) :
        ~\E j \in 1..Len(InterestsOf(input_file.items[i])) :
            clean_interest(InterestsOf(input_file.items[i])[j]) # <<>>

\* C10: on an input with no author, or with authors but no usable label, the
\* run raises nothing, print_summary included, and returns empty statistics,
\* total_unique_fields 0, total_authors the number of records, and the three
\* summary facts None.
C10_EmptyResult ==
    (input_file.kind = "array" /\ NoUsableLabel)
    => /\ exc = "None" /\ pc # "raised"
       /\ pc # "done" => ENABLED Next
       /\ pc = "done" =>
             /\ printed
             /\ retval = results /\ results # None
             /\ retval.research_fields_statistics = <<>>
             /\ retval.total_unique_fields = 0
             /\ retval.total_authors = Len(input_file.items)
             /\ retval.top_field_by_avg_h_index = None
             /\ retval.most_popular_field = None
             /\ retval.field_with_highest_max_h_index = None

\* a run over two authors, one with a raw interest that normalises to the
\* empty label, has printed its summary and returned
C10_Witness ==
    /\ pc = "done" /\ printed /\ retval = results
    /\ input_file.kind = "array" /\ Len(input_file.items) = 2
    /\ NoUsableLabel
    /\ \E i \in 1..Len(input_file.items) : InterestsOf(input_file.items[i]) # <<>>

\* C14: with at least one field, top_field_by_avg_h_index has the largest
\* average_h_index of all fields and is the first entry of the exported,
\* sorted research_fields_statistics.
C14_TopFieldIsFirstExported ==
    (results # None /\ results.research_fields_statistics # <<>>)
    => /\ \A k \in 1..Len(field_stats) :
             field_stats[k].average_h_index
                <= results.top_field_by_avg_h_index.average_h_index
       /\ results.top_field_by_avg_h_index = results.research_fields_statistics[1]

\* a finished run with two fields that tie on the largest average_h_index
C14_Witness ==
    /\ pc = "done" /\ results # None
    /\ Len(results.research_fields_statistics) = 2
    /\ results.research_fields_statistics[1].average_h_index
          = results.research_fields_statistics[2].average_h_index
    /\ results.research_fields_statistics[1].average_h_index > 0

\* the orders a set of labels can be iterated in
RECURSIVE IterationOrders(_)
IterationOrders(labels) ==
    IF labels = {} THEN {<<>>}
    ELSE UNION {{<<l>> \o rest : rest \in IterationOrders(labels \ {l})} :
                   l \in labels}

\* calculate_field_statistics (lines 38-79) when the set is iterated in the
\* given order and no int() raises
RECURSIVE calculate_field_statistics(_, _)
calculate_field_statistics(authors, order) ==
    IF order = <<>> THEN <<>>
    ELSE LET n == Len(order)
             in_field == authors_in_field(authors, order[n])
             earlier == calculate_field_statistics(authors, SubSeq(order, 1, n - 1))
         IN IF in_field # <<>>
            THEN Append(earlier, FieldStatistics(order[n], in_field))
            ELSE earlier

\* the field labels of an exported map, in order
FieldOrder(fs) == [k \in 1..Len(fs) |-> fs[k].field]

\* C11: the run's field order and its three summary facts are those of a run
\* on the same author list that iterates the set of labels in any other
\* order.
C11_SameResultInEveryOrder ==
    (pc = "done" /\ results # None)
    => \A order \in IterationOrders(unique_interests) :
          LET other == Results(Authors, calculate_field_statistics(Authors, order))
          IN /\ FieldOrder(other.research_fields_statistics)
                   = FieldOrder(results.research_fields_statistics)
             /\ other.top_field_by_avg_h_index = results.top_field_by_avg_h_index
             /\ other.most_popular_field = results.most_popular_field
             /\ other.field_with_highest_max_h_index
                   = results.field_with_highest_max_h_index

\* C12: when the research-fields output file is missing, the dashboard
\* shows its warning, renders nothing further and does not raise.
C12_MissingFileIsUnavailable ==
    (written = None /\ view \notin {"idle", "warned"})
    => view = "unavailable" /\ view_exc = "None"

\* ---------------------------------------------------------------- one field alone
\* calculate_field_statistics on a single label: h_indices grows by one
\* matching author at a time, then the statistics of lines 65-77 are taken
FInit ==
    /\ NIdle /\ PIdle /\ SIdle
    /\ h_indices = [len |-> 0, sum |-> 0]
    /\ field = None
    /\ fpc = "scanning"

\* lines 52-55: one more matching author, h_indices.append(h_index)
AppendHIndex ==
    /\ fpc = "scanning" /\ h_indices.len < MaxFieldSize
    /\ \E h_index \in 0..MaxHIndex :
          h_indices' = [len |-> h_indices.len + 1, sum |-> h_indices.sum + h_index]
    /\ UNCHANGED <<nvars, pvars, svars, field, fpc>>

\* lines 65-77: `if h_indices:` and the statistics
ComputeStatistics ==
    /\ fpc = "scanning" /\ h_indices.len > 0
    /\ \E average \in round2_outcomes(h_indices.sum, h_indices.len) :
          field' = [kind |-> "stats",
                    count |-> h_indices.len,
                    average_h_index |-> average,
                    total_h_index |-> h_indices.sum]
    /\ fpc' = "computed"
    /\ UNCHANGED <<nvars, pvars, svars, h_indices>>

FNext == AppendHIndex \/ ComputeStatistics

SpecStatistics == FInit /\ [][FNext]_vars

\* C13: for a field of any size, total_h_index is average_h_index times
\* count rounded to the nearest integer, the average being held in
\* hundredths.
C13_TotalIsRoundedProduct ==
    fpc = "computed"
    => field.total_h_index = round_nearest(field.average_h_index * field.count, 100)

\* C13 as amended: the same for a field of at most 100 authors.
C13_TotalIsRoundedProductUpTo100 ==
    (fpc = "computed" /\ field.count <= 100)
    => field.total_h_index = round_nearest(field.average_h_index * field.count, 100)

\* the statistics of a field of 99 authors whose average had to be rounded
C13_Witness ==
    /\ fpc = "computed"
    /\ field.count = 99
    /\ (100 * field.total_h_index) % field.count # 0

====
